---- MODULE Spec2Model ----
(***************************************************************************)
(* Loyalty service: the in-memory loyalty store (MemoryDatabase), the      *)
(* domain types (Member, Tier, Loyalty, LoyaltyEvent) and the AddPoints    *)
(* command handler (DomainLogic::call), as a state machine.                *)
(***************************************************************************)
EXTENDS Integers, Sequences, FiniteSets, TLC

(***************************************************************************)
(* Bounds of the model.                                                    *)
(***************************************************************************)

\* Width of the machine integers.  The code's i32 and u32 are 32 bits wide;
\* TLC's own integers are 32 bits wide too and cannot hold a u32, so the
\* model keeps two's-complement arithmetic at a narrower width.
IntBits == 16

\* Number of concurrent callers (threads / tasks).
NumTasks == 2

\* Number of member ids.
NumMembers == 2

\* Number of LoyaltyEvents (fresh event ids) created in one execution.
MaxUuid == 3

\* The membership_since dates of the request specification go back this many
\* steps of 30 days from the clock.
MaxMonthsBack == 45

\* Number of consecutive clock days, from FirstDay on, of the date
\* specification.
NumDays == 366

\* The day (days since 2020-01-01) the clock values start from: 2023-01-01.
FirstDay == 1096

(***************************************************************************)
(* Machine integers: i32, u32 and the `as` casts.                          *)
(***************************************************************************)

TwoToBits == 2 ^ IntBits

MaxI32 == 2 ^ (IntBits - 1) - 1

MinI32 == 0 - 2 ^ (IntBits - 1)

MaxU32 == 2 ^ IntBits - 1

\* `x as i32` for an integer x, and the result of a wrapping i32 operation
\* whose mathematical value is x.
AsI32(x) == ((x - MinI32) % TwoToBits) + MinI32

\* `x as u32` for an integer x.
AsU32(x) == x % TwoToBits

\* An i32 operation with mathematical value x overflows.
OverflowsI32(x) == x < MinI32 \/ x > MaxI32

\* A real number is kept in hundredths: 365 is 3.65.
Trunc(a) == IF a >= 0 THEN a \div 100 ELSE 0 - ((0 - a) \div 100)

\* `a as i32` for an f64 a: truncation toward zero, saturating.
F64AsI32(a) ==
    IF Trunc(a) > MaxI32 THEN MaxI32
    ELSE IF Trunc(a) < MinI32 THEN MinI32
    ELSE Trunc(a)

(***************************************************************************)
(* Calendar: a DateTime<Utc> is a day number, day 0 is 2020-01-01.         *)
(***************************************************************************)

IsLeap(y) == (y % 4 = 0 /\ y % 100 # 0) \/ y % 400 = 0

DaysInYear(y) == IF IsLeap(y) THEN 366 ELSE 365

DaysInMonth(y, m) ==
    IF m = 2 THEN (IF IsLeap(y) THEN 29 ELSE 28)
    ELSE IF m \in {4, 6, 9, 11} THEN 30
    ELSE 31

RECURSIVE YearFrom(_, _)
YearFrom(y, d) == IF d < DaysInYear(y) THEN y ELSE YearFrom(y + 1, d - DaysInYear(y))

RECURSIVE DayOfYearFrom(_, _)
DayOfYearFrom(y, d) ==
    IF d < DaysInYear(y) THEN d ELSE DayOfYearFrom(y + 1, d - DaysInYear(y))

RECURSIVE MonthFrom(_, _, _)
MonthFrom(y, m, d) ==
    IF d < DaysInMonth(y, m) THEN m ELSE MonthFrom(y, m + 1, d - DaysInMonth(y, m))

\* Datelike::year and Datelike::month.
year(date) == YearFrom(2020, date)

month(date) == MonthFrom(year(date), 1, DayOfYearFrom(2020, date))

(***************************************************************************)
(* Domain: Tier, Member::tier, Tier::ratio.                                *)
(***************************************************************************)

\* Option<T>: None and Some(v).
None == [some |-> FALSE]

Some(v) == [some |-> TRUE, value |-> v]

Tier == {"None", "Basic", "Silver", "Gold", "Platinum"}

\* Mutant of tier: the Gold range ends one month late.
tier_gold_to_36(membership_months) ==
    IF ~membership_months.some THEN "None"
    ELSE IF membership_months.value \in 0..11 THEN "Basic"
    ELSE IF membership_months.value \in 12..23 THEN "Silver"
    ELSE IF membership_months.value \in 24..36 THEN "Gold"
    ELSE "Platinum"

\* Member::tier, of the member's membership_months (an Option<u32>).
tier(membership_months) ==
    IF ~membership_months.some THEN "None"
    ELSE IF membership_months.value \in 0..11 THEN "Basic"
    ELSE IF membership_months.value \in 12..23 THEN "Silver"
    ELSE IF membership_months.value \in 24..35 THEN "Gold"
    ELSE "Platinum"

\* Mutant of ratio: a non-member earns like a Basic member.
ratio_none_as_basic(t) ==
    CASE t = "None" -> 10
      [] t = "Basic" -> 10
      [] t = "Silver" -> 12
      [] t = "Gold" -> 15
      [] t = "Platinum" -> 20

ratio(t) ==
    CASE t = "None" -> 0
      [] t = "Basic" -> 10
      [] t = "Silver" -> 12
      [] t = "Gold" -> 15
      [] t = "Platinum" -> 20

\* Loyalty::new
Loyalty_new(member_id) == [member_id |-> member_id, points |-> 0, events |-> <<>>]

LoyaltyEvent(event_id, delta_points, reason_text) ==
    [event_id |-> event_id, delta_points |-> delta_points, reason |-> reason_text]

(***************************************************************************)
(* AddPoints: the request's events, months_since, create_event.            *)
(***************************************************************************)

MembershipRenewed ==
    [kind |-> "MembershipRenewed", purchase_amount |-> 0, loyalty_points |-> 0,
     reason |-> None]

InStorePurchase(purchase_amount) ==
    [kind |-> "InStorePurchase", purchase_amount |-> purchase_amount,
     loyalty_points |-> 0, reason |-> None]

OnlinePurchase(purchase_amount) ==
    [kind |-> "OnlinePurchase", purchase_amount |-> purchase_amount,
     loyalty_points |-> 0, reason |-> None]

Manual(loyalty_points, reason_opt) ==
    [kind |-> "Manual", purchase_amount |-> 0, loyalty_points |-> loyalty_points,
     reason |-> reason_opt]

\* Mutant of reason: a Manual event always gets the default reason.
reason_ignores_supplied(input) ==
    CASE input.kind = "MembershipRenewed" -> "Membership renewed"
      [] input.kind = "InStorePurchase" -> "In-store purchase"
      [] input.kind = "OnlinePurchase" -> "Online purchase"
      [] input.kind = "Manual" -> "Manual addition"

\* Mutant of reason: an empty supplied reason counts as absent.
reason_empty_as_absent(input) ==
    CASE input.kind = "MembershipRenewed" -> "Membership renewed"
      [] input.kind = "InStorePurchase" -> "In-store purchase"
      [] input.kind = "OnlinePurchase" -> "Online purchase"
      [] input.kind = "Manual" ->
            IF input.reason.some /\ input.reason.value # ""
            THEN input.reason.value ELSE "Manual addition"

\* AddPointsEvent::reason
reason(input) ==
    CASE input.kind = "MembershipRenewed" -> "Membership renewed"
      [] input.kind = "InStorePurchase" -> "In-store purchase"
      [] input.kind = "OnlinePurchase" -> "Online purchase"
      [] input.kind = "Manual" ->
            IF input.reason.some THEN input.reason.value ELSE "Manual addition"

\* The signed month count months_since computes from the date and the clock.
months_between(date, now_utc) ==
    (year(now_utc) - year(date)) * 12 + month(date) - month(now_utc)

\* months_since: Ok(months as u32), or Err(InvalidState) naming -months.
months_since(date, now_utc) ==
    IF months_between(date, now_utc) < 0
    THEN [ok |-> FALSE, months |-> 0 - months_between(date, now_utc)]
    ELSE [ok |-> TRUE, months |-> AsU32(months_between(date, now_utc))]

MEMBERSHIP_RENEWED_POINTS == 290

\* The mathematical value of the delta_points expression of create_event.
delta_points_exact(t, input) ==
    CASE input.kind = "MembershipRenewed" -> MEMBERSHIP_RENEWED_POINTS
      [] input.kind \in {"InStorePurchase", "OnlinePurchase"} ->
            F64AsI32(input.purchase_amount) * ratio(t)
      [] input.kind = "Manual" -> AsI32(input.loyalty_points)

\* Mutant of create_event: every event gets the same event_id.
create_event_same_id(t, input, event_id) ==
    LoyaltyEvent(1, AsI32(delta_points_exact(t, input)), reason(input))

\* create_event, with the i32 multiplication wrapping on overflow.
create_event(t, input, event_id) ==
    LoyaltyEvent(event_id, AsI32(delta_points_exact(t, input)), reason(input))

(***************************************************************************)
(* State.                                                                  *)
(***************************************************************************)

VARIABLES
    loyalties,        \* MemoryDatabase.loyalties: the HashMap<Uuid, Loyalty>
    mutex,            \* the Mutex around it: 0 when free, else the holding task
    poisoned,         \* the Mutex is poisoned (a holder panicked)
    overflow_checks,  \* the build panics on integer overflow (else it wraps)
    now,              \* Utc::now(), a day number
    next_uuid,        \* the next value Uuid::new_v4() returns
    directory,        \* the member directory behind MemberPort
    task              \* the callers: position, locals and result of each

vars == <<loyalties, mutex, poisoned, overflow_checks, now, next_uuid, directory, task>>

Tasks == 1..NumTasks

Members == 1..NumMembers

Pending == [tag |-> "Pending"]

IdleTask ==
    [pc |-> "idle", op |-> "none", member_id |-> 0, input |-> MembershipRenewed,
     db_member |-> [active_member |-> FALSE, membership_since |-> 0],
     loyalty |-> Loyalty_new(0), membership_months |-> None,
     event |-> LoyaltyEvent(0, 0, ""), vacant |-> FALSE, new_points |-> 0,
     db_result |-> Pending, result |-> Pending]

(***************************************************************************)
(* Inputs.                                                                 *)
(***************************************************************************)

\* The AddPointsEvents the callers send.
Inputs ==
    {InStorePurchase(365), Manual(MaxI32, None)}

\* The delta_points of the events direct callers of the store append.
Deltas == {5, 0 - 5}

\* The clock values of the main specification.
Nows == {FirstDay + 305}

\* A row of the member directory behind MemberPort: whether the member is
\* active, and membership_since in days from the clock.
DirectoryRow(active_member, offset) == [active_member |-> active_member, offset |-> offset]

\* The directory of the main specification: member 1 is active since 700
\* days ago, the other members are active since 60 days ago.
Directories ==
    {[m \in Members |-> IF m = 1 THEN DirectoryRow(TRUE, 0 - 700)
                                 ELSE DirectoryRow(TRUE, 0 - 60)]}

\* What MemberPort::get_member can answer for a member: the directory's row,
\* MemberDoesNotExist or an adapter error.
MemberPortResults(row, now_utc) ==
    {[ok |-> FALSE, error |-> "MemberDoesNotExist"],
     [ok |-> FALSE, error |-> "Adapter"],
     [ok |-> TRUE, active_member |-> row.active_member,
      membership_since |-> now_utc + row.offset]}

(***************************************************************************)
(* The store: MemoryDatabase.                                              *)
(***************************************************************************)

\* Mutant of lock: the mutex excludes nobody.
lock_not_exclusive(holder) == TRUE

\* Mutex::lock can take the mutex.
lock(holder) == holder = 0

\* Mutant of get: a stored Loyalty is read without its events.
get_without_events(map, member_id) ==
    IF member_id \in DOMAIN map
    THEN [map[member_id] EXCEPT !.events = <<>>]
    ELSE Loyalty_new(member_id)

\* HashMap::get(..).cloned().unwrap_or_else(|| Loyalty::new(member_id))
get(map, member_id) ==
    IF member_id \in DOMAIN map THEN map[member_id] ELSE Loyalty_new(member_id)

\* Mutant of register_check: the total of an existing Loyalty is not checked.
register_check_unchecked(map, member_id, event, checks) ==
    IF member_id \in DOMAIN map
    THEN [outcome |-> "Write", vacant |-> FALSE,
          new_points |-> AsI32(AsI32(map[member_id].points) + event.delta_points),
          current_points |-> map[member_id].points]
    ELSE IF event.delta_points < 0
         THEN [outcome |-> "Err", vacant |-> TRUE, new_points |-> event.delta_points,
               current_points |-> 0]
         ELSE [outcome |-> "Write", vacant |-> TRUE, new_points |-> event.delta_points,
               current_points |-> 0]

\* What register_loyalty_event decides under the lock, before it writes.
register_check(map, member_id, event, checks) ==
    IF member_id \in DOMAIN map
    THEN LET current == map[member_id].points
             exact == AsI32(current) + event.delta_points
         IN  IF OverflowsI32(exact) /\ checks
             THEN [outcome |-> "Panic", vacant |-> FALSE, new_points |-> 0,
                   current_points |-> current]
             ELSE IF AsI32(exact) < 0
             THEN [outcome |-> "Err", vacant |-> FALSE, new_points |-> AsI32(exact),
                   current_points |-> current]
             ELSE [outcome |-> "Write", vacant |-> FALSE, new_points |-> AsI32(exact),
                   current_points |-> current]
    ELSE IF event.delta_points < 0
         THEN [outcome |-> "Err", vacant |-> TRUE, new_points |-> event.delta_points,
               current_points |-> Loyalty_new(member_id).points]
         ELSE [outcome |-> "Write", vacant |-> TRUE, new_points |-> event.delta_points,
               current_points |-> Loyalty_new(member_id).points]

\* Mutant of register_entry: an existing Loyalty gets the event but keeps
\* its points.
register_entry_keeps_points(map, member_id, vacant, new_points, event) ==
    IF vacant
    THEN [Loyalty_new(member_id) EXCEPT !.points = AsU32(event.delta_points),
                                        !.events = Append(@, event)]
    ELSE [map[member_id] EXCEPT !.events = Append(@, event)]

\* Mutant of register_entry: the event is put at the head of the ledger.
register_entry_prepends(map, member_id, vacant, new_points, event) ==
    IF vacant
    THEN [Loyalty_new(member_id) EXCEPT !.points = AsU32(event.delta_points),
                                        !.events = <<event>> \o @]
    ELSE [map[member_id] EXCEPT !.points = AsU32(new_points),
                                !.events = <<event>> \o @]

\* Mutant of register_entry: the event is pushed twice.
register_entry_pushes_twice(map, member_id, vacant, new_points, event) ==
    IF vacant
    THEN [Loyalty_new(member_id) EXCEPT !.points = AsU32(event.delta_points),
                                        !.events = Append(Append(@, event), event)]
    ELSE [map[member_id] EXCEPT !.points = AsU32(new_points),
                                !.events = Append(Append(@, event), event)]

\* The Loyalty register_loyalty_event leaves in the map's entry.
register_entry(map, member_id, vacant, new_points, event) ==
    IF vacant
    THEN [Loyalty_new(member_id) EXCEPT !.points = AsU32(event.delta_points),
                                        !.events = Append(@, event)]
    ELSE [map[member_id] EXCEPT !.points = AsU32(new_points),
                                !.events = Append(@, event)]

\* Mutant of register_rejected: the entry of a member without a record is
\* created before the check.
register_rejected_inserts(map, member_id) ==
    [k \in DOMAIN map \cup {member_id} |->
        IF k \in DOMAIN map THEN map[k] ELSE Loyalty_new(member_id)]

\* The map register_loyalty_event leaves when it returns NegativePointsTotal.
register_rejected(map, member_id) == map

\* Mutant of register_returned: the Loyalty is cloned before the push.
register_returned_before_push(map, member_id) ==
    [map[member_id] EXCEPT
        !.events = SubSeq(@, 1, Len(@) - 1)]

\* The Loyalty register_loyalty_event returns after the write.
register_returned(map, member_id) == map[member_id]

\* HashMap insert / in-place update of one entry.
Insert(map, member_id, loyalty) ==
    [k \in DOMAIN map \cup {member_id} |-> IF k = member_id THEN loyalty ELSE map[k]]

(***************************************************************************)
(* Results.                                                                *)
(***************************************************************************)

Ok(loyalty) == [tag |-> "Ok", loyalty |-> loyalty]

NegativePointsTotal(current_points, delta_points) ==
    [tag |-> "NegativePointsTotal", current_points |-> current_points,
     delta_points |-> delta_points]

\* Error::Adapter of the database port (the erased PoisonError).
Adapter == [tag |-> "Adapter"]

\* The caller's thread panicked.
Panic == [tag |-> "Panic"]

\* commands::Error, by #[from]
Database(error) == [tag |-> "Database", error |-> error]

MemberError(error) == [tag |-> "Member", error |-> error]

InvalidState(months) == [tag |-> "InvalidState", months |-> months]

\* Mutant of AddPointsResponse: both totals are the one read before the
\* append.
AddPointsResponse_from_read(member_id, membership_months, old_points, new_points) ==
    [tag |-> "Ok",
     response |-> [member_id |-> member_id, tier |-> tier(membership_months),
                   old_loyalty_points |-> old_points,
                   new_loyalty_points |-> old_points]]

AddPointsResponse(member_id, membership_months, old_points, new_points) ==
    [tag |-> "Ok",
     response |-> [member_id |-> member_id, tier |-> tier(membership_months),
                   old_loyalty_points |-> old_points,
                   new_loyalty_points |-> new_points]]

\* The result a store call hands to its caller: AddPoints wraps the error,
\* a direct caller gets it as it is.
Propagate(op, db_result) == IF op = "AddPoints" THEN Database(db_result) ELSE db_result

(***************************************************************************)
(* Callers start a call.                                                   *)
(***************************************************************************)

\* DomainLogic::call(AddPointsRequest { member_id, event })
call(t, member_id, input) ==
    /\ task[t].pc = "idle"
    /\ task' = [task EXCEPT ![t] =
                  [IdleTask EXCEPT !.pc = "get_member", !.op = "AddPoints",
                                   !.member_id = member_id, !.input = input]]
    /\ UNCHANGED <<loyalties, mutex, poisoned, overflow_checks, now, next_uuid, directory>>

\* A direct caller of register_loyalty_event builds its event.
call_register_loyalty_event(t, member_id, delta_points) ==
    /\ task[t].pc = "idle"
    /\ next_uuid <= MaxUuid
    /\ task' = [task EXCEPT ![t] =
                  [IdleTask EXCEPT !.pc = "register_loyalty_event",
                                   !.op = "register_loyalty_event",
                                   !.member_id = member_id,
                                   !.event = LoyaltyEvent(next_uuid, delta_points, "")]]
    /\ next_uuid' = next_uuid + 1
    /\ UNCHANGED <<loyalties, mutex, poisoned, overflow_checks, now, directory>>

\* A direct caller of get_loyalty_points.
call_get_loyalty_points(t, member_id) ==
    /\ task[t].pc = "idle"
    /\ task' = [task EXCEPT ![t] =
                  [IdleTask EXCEPT !.pc = "get_loyalty_points",
                                   !.op = "get_loyalty_points",
                                   !.member_id = member_id]]
    /\ UNCHANGED <<loyalties, mutex, poisoned, overflow_checks, now, next_uuid, directory>>

(***************************************************************************)
(* The steps of a call.                                                    *)
(***************************************************************************)

\* member.get_member(req.member_id).await?
get_member(t) ==
    /\ task[t].pc = "get_member"
    /\ \E r \in MemberPortResults(directory[task[t].member_id], now) :
         task' = [task EXCEPT ![t] =
                    IF r.ok
                    THEN [@ EXCEPT !.pc = "get_loyalty_points",
                                   !.db_member = [active_member |-> r.active_member,
                                                  membership_since |-> r.membership_since]]
                    ELSE [@ EXCEPT !.pc = "done", !.result = MemberError(r.error)]]
    /\ UNCHANGED <<loyalties, mutex, poisoned, overflow_checks, now, next_uuid, directory>>

\* MemoryDatabase::get_loyalty_points: lock, read, clone, unlock.
get_loyalty_points(t) ==
    /\ task[t].pc = "get_loyalty_points"
    /\ lock(mutex)
    /\ LET me == task[t]
           loyalty == get(loyalties, me.member_id)
       IN  task' = [task EXCEPT ![t] =
                      IF poisoned
                      THEN [me EXCEPT !.pc = "done", !.db_result = Adapter,
                                      !.result = Propagate(me.op, Adapter)]
                      ELSE IF me.op = "AddPoints"
                      THEN [me EXCEPT !.pc = "create_event", !.loyalty = loyalty,
                                      !.db_result = Ok(loyalty)]
                      ELSE [me EXCEPT !.pc = "done", !.loyalty = loyalty,
                                      !.db_result = Ok(loyalty),
                                      !.result = Ok(loyalty)]]
    /\ UNCHANGED <<loyalties, mutex, poisoned, overflow_checks, now, next_uuid, directory>>

\* The synchronous part of DomainLogic::call between the two store calls:
\* months_since, Member::new, Member::tier, create_event.
call_create_event(t) ==
    /\ task[t].pc = "create_event"
    /\ LET me == task[t]
           since == months_since(me.db_member.membership_since, now)
           months == IF me.db_member.active_member THEN Some(since.months) ELSE None
       IN  IF me.db_member.active_member /\ ~since.ok
           THEN /\ task' = [task EXCEPT ![t].pc = "done",
                                        ![t].result = InvalidState(since.months)]
                /\ UNCHANGED next_uuid
           ELSE IF OverflowsI32(delta_points_exact(tier(months), me.input))
                   /\ overflow_checks
           THEN /\ task' = [task EXCEPT ![t].pc = "done",
                                        ![t].membership_months = months,
                                        ![t].result = Panic]
                /\ UNCHANGED next_uuid
           ELSE /\ next_uuid <= MaxUuid
                /\ task' = [task EXCEPT ![t].pc = "register_loyalty_event",
                                        ![t].membership_months = months,
                                        ![t].event =
                                            create_event(tier(months), me.input, next_uuid)]
                /\ next_uuid' = next_uuid + 1
    /\ UNCHANGED <<loyalties, mutex, poisoned, overflow_checks, now, directory>>

\* MemoryDatabase::register_loyalty_event, first half: lock, look the entry
\* up, compute the new total and check it.  An Err returns and unlocks.
register_loyalty_event(t) ==
    /\ task[t].pc = "register_loyalty_event"
    /\ lock(mutex)
    /\ LET me == task[t]
           chk == register_check(loyalties, me.member_id, me.event, overflow_checks)
           err == NegativePointsTotal(chk.current_points, me.event.delta_points)
       IN  IF poisoned
           THEN /\ task' = [task EXCEPT ![t].pc = "done", ![t].db_result = Adapter,
                                        ![t].result = Propagate(me.op, Adapter)]
                /\ UNCHANGED <<loyalties, mutex, poisoned>>
           ELSE IF chk.outcome = "Panic"
           THEN /\ task' = [task EXCEPT ![t].pc = "done", ![t].db_result = Panic,
                                        ![t].result = Panic]
                /\ poisoned' = TRUE
                /\ UNCHANGED <<loyalties, mutex>>
           ELSE IF chk.outcome = "Err"
           THEN /\ task' = [task EXCEPT ![t].pc = "done", ![t].db_result = err,
                                        ![t].result = Propagate(me.op, err)]
                /\ loyalties' = register_rejected(loyalties, me.member_id)
                /\ UNCHANGED <<mutex, poisoned>>
           ELSE /\ task' = [task EXCEPT ![t].pc = "register_write",
                                        ![t].vacant = chk.vacant,
                                        ![t].new_points = chk.new_points]
                /\ mutex' = t
                /\ UNCHANGED <<loyalties, poisoned>>
    /\ UNCHANGED <<overflow_checks, now, next_uuid, directory>>

\* MemoryDatabase::register_loyalty_event, second half: store the total,
\* push the event, clone, unlock; DomainLogic::call builds its response.
register_write(t) ==
    /\ task[t].pc = "register_write"
    /\ LET me == task[t]
           entry == register_entry(loyalties, me.member_id, me.vacant,
                                   me.new_points, me.event)
           map == Insert(loyalties, me.member_id, entry)
           updated == register_returned(map, me.member_id)
       IN  /\ loyalties' = map
           /\ task' = [task EXCEPT
                         ![t].pc = "done",
                         ![t].db_result = Ok(updated),
                         ![t].result =
                            IF me.op = "AddPoints"
                            THEN AddPointsResponse(me.member_id, me.membership_months,
                                                   me.loyalty.points, updated.points)
                            ELSE Ok(updated)]
    /\ mutex' = 0
    /\ UNCHANGED <<poisoned, overflow_checks, now, next_uuid, directory>>

\* The caller takes the result; the task is free for another call.
return(t) ==
    /\ task[t].pc = "done"
    /\ task' = [task EXCEPT ![t] = IdleTask]
    /\ UNCHANGED <<loyalties, mutex, poisoned, overflow_checks, now, next_uuid, directory>>

(***************************************************************************)
(* Specification.                                                          *)
(***************************************************************************)

InitWith(nows, directories) ==
    /\ loyalties = <<>>
    /\ mutex = 0
    /\ poisoned = FALSE
    /\ overflow_checks \in BOOLEAN
    /\ now \in nows
    /\ next_uuid = 1
    /\ directory \in directories
    /\ task = [t \in Tasks |-> IdleTask]

Init == InitWith(Nows, Directories)

Next ==
    \E t \in Tasks :
        \/ \E m \in Members, i \in Inputs : call(t, m, i)
        \/ \E m \in Members, d \in Deltas : call_register_loyalty_event(t, m, d)
        \/ \E m \in Members : call_get_loyalty_points(t, m)
        \/ get_member(t)
        \/ get_loyalty_points(t)
        \/ call_create_event(t)
        \/ register_loyalty_event(t)
        \/ register_write(t)
        \/ return(t)

Spec == Init /\ [][Next]_vars

TypeOK ==
    /\ mutex \in 0..NumTasks
    /\ poisoned \in BOOLEAN
    /\ next_uuid \in 1..(MaxUuid + 1)
    /\ DOMAIN loyalties \subseteq Members
    /\ \A m \in DOMAIN loyalties : loyalties[m].points \in 0..MaxU32

(***************************************************************************)
(* Ledger arithmetic used by the properties.                               *)
(***************************************************************************)

RECURSIVE PrefixSum(_, _)
\* The signed sum of the delta_points of the first k events.
PrefixSum(events, k) ==
    IF k = 0 THEN 0 ELSE PrefixSum(events, k - 1) + events[k].delta_points

SumDeltas(events) == PrefixSum(events, Len(events))

IsPrefix(s, events) == Len(s) <= Len(events) /\ SubSeq(events, 1, Len(s)) = s

Positions(events, event_id) == {i \in 1..Len(events) : events[i].event_id = event_id}

Points(m) == get(loyalties, m).points

Events(m) == get(loyalties, m).events

\* Task t has a finished store call with this result tag.
Finished(t, tag) == task[t].pc = "done" /\ task[t].db_result.tag = tag

\* Task t's register_loyalty_event was accepted and has returned.
Accepted(t) ==
    /\ Finished(t, "Ok")
    /\ task[t].op \in {"AddPoints", "register_loyalty_event"}
    /\ task[t].result.tag = "Ok"

\* Task t holds a Loyalty that get_loyalty_points returned.
HoldsSnapshot(t) ==
    \/ /\ task[t].op = "AddPoints"
       /\ task[t].pc \in {"create_event", "register_loyalty_event", "register_write", "done"}
       /\ task[t].loyalty.member_id = task[t].member_id
    \/ /\ task[t].op = "get_loyalty_points"
       /\ Finished(t, "Ok")

\* Task t's register_loyalty_event was rejected.
Rejected(t) == Finished(t, "NegativePointsTotal")

(***************************************************************************)
(* C1: every member's stored points total is >= 0, also when read as the   *)
(* signed total the store computes with (points as i32), in every          *)
(* reachable state.                                                        *)
(***************************************************************************)
C1_NonNegativePoints ==
    \A m \in Members : Points(m) >= 0 /\ AsI32(Points(m)) >= 0

\* A ledger that was drained by a negative event, and an overdraft on it
\* that was rejected.
C1_Witness ==
    \E m \in DOMAIN loyalties, t \in Tasks :
        /\ Len(loyalties[m].events) >= 2
        /\ \E i \in 1..Len(loyalties[m].events) : loyalties[m].events[i].delta_points < 0
        /\ Rejected(t)
        /\ task[t].member_id = m

(***************************************************************************)
(* C2: sum law.  For every member the stored points equal the signed sum   *)
(* of the delta_points of the member's ledger (0 without a record), and    *)
(* every prefix of the ledger has a sum >= 0.                              *)
(***************************************************************************)
C2_SumLaw ==
    \A m \in Members :
        /\ Points(m) = SumDeltas(Events(m))
        /\ \A k \in 0..Len(Events(m)) : PrefixSum(Events(m), k) >= 0

\* A ledger of positive and negative events.
C2_Witness ==
    \E m \in DOMAIN loyalties :
        /\ Len(loyalties[m].events) = 3
        /\ \E i, j \in 1..3 :
              /\ loyalties[m].events[i].delta_points < 0
              /\ loyalties[m].events[j].delta_points > 0
        /\ loyalties[m].points > 0

(***************************************************************************)
(* C3: a register_loyalty_event that returns NegativePointsTotal leaves    *)
(* the whole store unchanged; for a member without a record no record is   *)
(* created.                                                                *)
(***************************************************************************)
C3_RejectionLeavesStore ==
    [][\A t \in Tasks :
          (task[t].pc = "register_loyalty_event" /\ task'[t].pc = "done"
             /\ task'[t].db_result.tag = "NegativePointsTotal")
          => loyalties' = loyalties]_vars

\* A negative event for a member of an empty store was rejected, and the
\* store is empty.
C3_Witness ==
    \E t \in Tasks :
        /\ Rejected(t)
        /\ task[t].db_result.current_points = 0
        /\ DOMAIN loyalties = {}

(***************************************************************************)
(* C4: register_loyalty_event is rejected with NegativePointsTotal if and  *)
(* only if current points + delta_points < 0; the error carries the        *)
(* current total and the delta; an event with delta_points >= 0 is never   *)
(* rejected.                                                               *)
(***************************************************************************)
C4_RejectedIffNegative ==
    [][\A t \in Tasks :
          (task[t].pc = "register_loyalty_event" /\ task'[t].pc # task[t].pc
             /\ ~poisoned)
          => LET current == Points(task[t].member_id)
                 delta == task[t].event.delta_points
                 rejected == task'[t].db_result.tag = "NegativePointsTotal"
             IN  /\ rejected <=> current + delta < 0
                 /\ rejected =>
                       task'[t].db_result = NegativePointsTotal(current, delta)
                 /\ delta >= 0 => ~rejected]_vars

(***************************************************************************)
(* C5: an accepted register_loyalty_event returns the post-append state:   *)
(* points = previous points + delta_points, events = previous events       *)
(* followed by the new event; get_loyalty_points of the member then        *)
(* returns that same Loyalty.                                              *)
(***************************************************************************)
C5_ReturnsPostAppend ==
    [][\A t \in Tasks :
          (task[t].pc = "register_write" /\ task'[t].pc = "done")
          => LET m == task[t].member_id
                 before == get(loyalties, m)
             IN  /\ task'[t].db_result =
                       Ok([member_id |-> m,
                           points |-> before.points + task[t].event.delta_points,
                           events |-> Append(before.events, task[t].event)])
                 /\ get(loyalties', m) = task'[t].db_result.loyalty]_vars

\* An append to an existing ledger has returned, and a later
\* get_loyalty_points of the member returned the same Loyalty.
C5_Witness ==
    \E t, u \in Tasks :
        /\ Accepted(t)
        /\ task[t].op = "register_loyalty_event"
        /\ Len(task[t].db_result.loyalty.events) >= 2
        /\ task[u].op = "get_loyalty_points"
        /\ Finished(u, "Ok")
        /\ task[u].member_id = task[t].member_id
        /\ task[u].result = task[t].result

(***************************************************************************)
(* C6: an AddPoints call that returns a response has appended exactly one  *)
(* LoyaltyEvent, its own, to the requested member's ledger; every other    *)
(* step of an AddPoints call, so every call that returns an error, leaves  *)
(* the store unchanged.                                                    *)
(***************************************************************************)
C6_OneEventOnSuccess ==
    [][\A t \in Tasks :
          (task[t].op = "AddPoints" /\ task'[t] # task[t])
          => IF task'[t].pc = "done" /\ task'[t].result.tag = "Ok"
             THEN /\ DOMAIN loyalties' = DOMAIN loyalties \cup {task[t].member_id}
                  /\ get(loyalties', task[t].member_id).events =
                        Append(Events(task[t].member_id), task[t].event)
                  /\ \A m \in Members \ {task[t].member_id} :
                        get(loyalties', m) = get(loyalties, m)
             ELSE loyalties' = loyalties]_vars

\* One AddPoints call has returned a response and its event is in the
\* ledger; another has returned NegativePointsTotal.
C6_Witness ==
    \E t, u \in Tasks :
        /\ task[t].op = "AddPoints"
        /\ Accepted(t)
        /\ Positions(Events(task[t].member_id), task[t].event.event_id) # {}
        /\ task[u].op = "AddPoints"
        /\ task[u].pc = "done"
        /\ task[u].result.tag = "Database"
        /\ task[u].result.error.tag = "NegativePointsTotal"

(***************************************************************************)
(* C7: the store calls on a member are linearisable, the ledger being the  *)
(* order.  The member's points are the sum of the ledger; an accepted      *)
(* event is in the ledger exactly once and the call returned the ledger up *)
(* to and including it; a rejected event is not in the ledger and was      *)
(* rejected against the total of some prefix of the ledger; every          *)
(* get_loyalty_points returned a prefix of the ledger and its total.       *)
(***************************************************************************)
C7_Linearisable ==
    /\ \A m \in Members : Points(m) = SumDeltas(Events(m))
    /\ \A m \in Members : \A i, j \in 1..Len(Events(m)) :
          Events(m)[i].event_id = Events(m)[j].event_id => i = j
    /\ \A t \in Tasks :
          LET me == task[t]
              ledger == Events(me.member_id)
          IN  /\ Accepted(t) =>
                    \E i \in 1..Len(ledger) :
                        /\ Positions(ledger, me.event.event_id) = {i}
                        /\ ledger[i] = me.event
                        /\ me.db_result.loyalty.events = SubSeq(ledger, 1, i)
                        /\ me.db_result.loyalty.points = PrefixSum(ledger, i)
              /\ Rejected(t) =>
                    /\ Positions(ledger, me.event.event_id) = {}
                    /\ \E k \in 0..Len(ledger) :
                          /\ PrefixSum(ledger, k) = me.db_result.current_points
                          /\ AsI32(PrefixSum(ledger, k) + me.event.delta_points) < 0
              /\ HoldsSnapshot(t) =>
                    /\ IsPrefix(me.loyalty.events, ledger)
                    /\ me.loyalty.points = SumDeltas(me.loyalty.events)

\* Two calls on one member: a get_loyalty_points that returned the ledger of
\* one event, and an append that returned the ledger of two.
C7_Witness ==
    \E t, u \in Tasks :
        /\ Accepted(t)
        /\ Len(task[t].db_result.loyalty.events) = 2
        /\ task[u].op = "get_loyalty_points"
        /\ Finished(u, "Ok")
        /\ task[u].member_id = task[t].member_id
        /\ Len(task[u].result.loyalty.events) = 1

(***************************************************************************)
(* C8: in an AddPoints response old_loyalty_points is the total the        *)
(* handler read and new_loyalty_points the member's total right after the  *)
(* handler's own append: new = old + the deltas of the events appended     *)
(* since the read, the handler's own being the last of them.  Without an   *)
(* append in between, new = old + delta_points.                            *)
(***************************************************************************)
C8_ResponseTotals ==
    \A t \in Tasks :
        (task[t].op = "AddPoints" /\ Accepted(t)) =>
            LET me == task[t]
                r == me.result.response
                ledger == Events(me.member_id)
                read == Len(me.loyalty.events)
            IN  \E i \in Positions(ledger, me.event.event_id) :
                    /\ r.old_loyalty_points = PrefixSum(ledger, read)
                    /\ r.new_loyalty_points = PrefixSum(ledger, i)
                    /\ i > read
                    /\ i = read + 1 =>
                          r.new_loyalty_points =
                              r.old_loyalty_points + me.event.delta_points

\* Another append came between the handler's read and its own append: the
\* response's difference is not the handler's delta, and the store's total
\* accounts for both events.
C8_Witness ==
    \E t \in Tasks :
        /\ task[t].op = "AddPoints"
        /\ Accepted(t)
        /\ task[t].result.response.new_loyalty_points
              - task[t].result.response.old_loyalty_points
               # task[t].event.delta_points
        /\ Len(Events(task[t].member_id)) = Len(task[t].loyalty.events) + 2
        /\ Points(task[t].member_id) = SumDeltas(Events(task[t].member_id))

(***************************************************************************)
(* C9: for an active member membership_months is the number of calendar    *)
(* months from membership_since forward to the clock, by year and month:   *)
(* a member who joined k calendar months before the current month has      *)
(* membership_months = k.                                                  *)
(***************************************************************************)
\* Calendar months from the date forward to the clock.
CalendarMonths(date, now_utc) ==
    (year(now_utc) - year(date)) * 12 + month(now_utc) - month(date)

\* Task t is an AddPoints call for an active member that is past months_since.
PastMonthsSince(t) ==
    /\ task[t].op = "AddPoints"
    /\ task[t].db_member.active_member
    /\ \/ task[t].pc \in {"register_loyalty_event", "register_write"}
       \/ task[t].pc = "done" /\ task[t].result.tag \in {"Ok", "Database", "InvalidState"}

C9_MonthsCountedForward ==
    \A t \in Tasks :
        (PastMonthsSince(t)
           /\ CalendarMonths(task[t].db_member.membership_since, now) >= 0)
        => /\ task[t].result.tag # "InvalidState"
           /\ task[t].membership_months =
                 Some(CalendarMonths(task[t].db_member.membership_since, now))

(***************************************************************************)
(* C10: AddPoints for an active member fails with InvalidState exactly     *)
(* when membership_since is in a later calendar month than the clock.      *)
(***************************************************************************)
C10_InvalidStateIffFuture ==
    \A t \in Tasks :
        PastMonthsSince(t) =>
            (task[t].result.tag = "InvalidState"
               <=> CalendarMonths(task[t].db_member.membership_since, now) < 0)

(***************************************************************************)
(* The request specification: one AddPoints call for member 1 on an empty  *)
(* store, for every kind of request and a directory row that is active or  *)
(* inactive, with membership_since from 40 days ahead of the clock back to *)
(* MaxMonthsBack steps of 30 days before it.                               *)
(***************************************************************************)

RequestOffsets == {40} \cup {0 - 30 * k : k \in 0..MaxMonthsBack}

RequestDirectories ==
    {[m \in Members |-> IF m = 1 THEN DirectoryRow(a, o)
                                 ELSE DirectoryRow(FALSE, 0 - 700)] :
        a \in BOOLEAN, o \in RequestOffsets}

\* The AddPointsEvents of the request specification.  Amounts are in
\* hundredths: 1.50, 3.65, -2.50, -0.99, 2000.00 and an amount beyond i32.
Requests ==
    {MembershipRenewed}
    \cup {InStorePurchase(a) : a \in {150, 365, 0 - 250, 0 - 99, 200000, 100 * MaxI32 + 5000}}
    \cup {OnlinePurchase(a) : a \in {150, 365, 0 - 250, 200000}}
    \cup {Manual(p, None) : p \in {0, 5, 200, MaxI32, MaxI32 + 1, MaxU32}}
    \cup {Manual(5, Some("")), Manual(5, Some("gift"))}

InitRequests == InitWith(Nows, RequestDirectories)

NextRequests ==
    \/ \E i \in Requests : call(1, 1, i)
    \/ get_member(1)
    \/ get_loyalty_points(1)
    \/ call_create_event(1)
    \/ register_loyalty_event(1)
    \/ register_write(1)

SpecRequests == InitRequests /\ [][NextRequests]_vars

\* Task t is an AddPoints call that has built its event.
HasEvent(t) ==
    /\ task[t].op = "AddPoints"
    /\ \/ task[t].pc \in {"register_loyalty_event", "register_write"}
       \/ task[t].pc = "done" /\ task[t].result.tag \in {"Ok", "Database"}
             /\ task[t].event.event_id # 0

(***************************************************************************)
(* C11: tier() is total and follows the table: absent -> None, 0..11 ->    *)
(* Basic, 12..23 -> Silver, 24..35 -> Gold, >= 36 -> Platinum; ratio()     *)
(* maps None, Basic, Silver, Gold, Platinum to 0, 10, 12, 15, 20.          *)
(***************************************************************************)
\* The tier table of the specification.
TierTable(membership_months) ==
    IF ~membership_months.some THEN "None"
    ELSE IF membership_months.value < 12 THEN "Basic"
    ELSE IF membership_months.value < 24 THEN "Silver"
    ELSE IF membership_months.value < 36 THEN "Gold"
    ELSE "Platinum"

\* The ratio table of the specification.
RatioTable ==
    [x \in Tier |-> IF x = "None" THEN 0
                    ELSE IF x = "Basic" THEN 10
                    ELSE IF x = "Silver" THEN 12
                    ELSE IF x = "Gold" THEN 15
                    ELSE 20]

C11_TierTable ==
    \A t \in Tasks :
        HasEvent(t) =>
            /\ tier(task[t].membership_months) \in Tier
            /\ (task[t].pc = "done" /\ task[t].result.tag = "Ok") =>
                  task[t].result.response.tier = TierTable(task[t].membership_months)
            /\ task[t].input \in {InStorePurchase(150), OnlinePurchase(150)} =>
                  task[t].event.delta_points =
                      RatioTable[TierTable(task[t].membership_months)]

\* A member of 36 months got the response of a Platinum member, and 20
\* points for a purchase of 1.50.
C11_Witness ==
    \E t \in Tasks :
        /\ task[t].op = "AddPoints"
        /\ Accepted(t)
        /\ task[t].membership_months = Some(36)
        /\ task[t].result.response.tier = "Platinum"
        /\ task[t].input = InStorePurchase(150)
        /\ task[t].event.delta_points = 20

(***************************************************************************)
(* C12: for InStorePurchase{a} and OnlinePurchase{a} on a member of tier T *)
(* and any amount a, the event's delta_points is trunc(a) * ratio(T), a    *)
(* truncated toward zero before the multiplication; both kinds give the    *)
(* same delta.                                                             *)
(***************************************************************************)
IsPurchase(input) == input.kind \in {"InStorePurchase", "OnlinePurchase"}

C12_PurchaseDelta ==
    \A t \in Tasks :
        (HasEvent(t) /\ IsPurchase(task[t].input)) =>
            task[t].event.delta_points =
                Trunc(task[t].input.purchase_amount)
                    * RatioTable[TierTable(task[t].membership_months)]

(***************************************************************************)
(* C13: the delta of MembershipRenewed and Manual does not depend on the   *)
(* tier: MembershipRenewed yields +290, Manual{loyalty_points = p} yields  *)
(* +p for every p of the request type (unsigned 32-bit).                   *)
(***************************************************************************)
C13_StaticDelta ==
    \A t \in Tasks :
        HasEvent(t) =>
            /\ task[t].input.kind = "MembershipRenewed" =>
                  task[t].event.delta_points = 290
            /\ task[t].input.kind = "Manual" =>
                  task[t].event.delta_points = task[t].input.loyalty_points

(***************************************************************************)
(* C14: the reason stored on the appended event is "Membership renewed",   *)
(* "In-store purchase", "Online purchase", the supplied string for Manual  *)
(* with a reason, "Manual addition" for Manual without one.                *)
(***************************************************************************)
\* The reason table of the specification.
ReasonTable(input) ==
    IF input.kind = "Manual"
    THEN IF input.reason = None THEN "Manual addition" ELSE input.reason.value
    ELSE IF input.kind = "InStorePurchase" THEN "In-store purchase"
    ELSE IF input.kind = "OnlinePurchase" THEN "Online purchase"
    ELSE "Membership renewed"

C14_StoredReason ==
    \A t \in Tasks :
        (task[t].op = "AddPoints" /\ Accepted(t)) =>
            \E i \in Positions(Events(task[t].member_id), task[t].event.event_id) :
                Events(task[t].member_id)[i].reason = ReasonTable(task[t].input)

\* A Manual event with the reason "gift" is in the ledger with that reason.
C14_Witness ==
    \E t \in Tasks :
        /\ task[t].op = "AddPoints"
        /\ Accepted(t)
        /\ task[t].input = Manual(5, Some("gift"))
        /\ Len(Events(task[t].member_id)) = 1
        /\ Events(task[t].member_id)[1].reason = "gift"

(***************************************************************************)
(* C15: for a member the directory reports inactive, whatever              *)
(* membership_since is, AddPoints does not fail with InvalidState,         *)
(* membership_months is absent, a purchase yields delta_points = 0, the    *)
(* event is still appended, and the response has tier None and             *)
(* new_loyalty_points = old_loyalty_points.                                *)
(***************************************************************************)
\* Task t is an AddPoints call whose get_member answered an inactive member.
InactiveCall(t) ==
    /\ task[t].op = "AddPoints"
    /\ task[t].pc \notin {"idle", "get_member"}
    /\ task[t].result.tag # "Member"
    /\ ~task[t].db_member.active_member

C15_InactiveMember ==
    \A t \in Tasks :
        InactiveCall(t) =>
            /\ task[t].result.tag # "InvalidState"
            /\ HasEvent(t) =>
                  /\ task[t].membership_months = None
                  /\ IsPurchase(task[t].input) => task[t].event.delta_points = 0
            /\ (task[t].pc = "done" /\ IsPurchase(task[t].input)) =>
                  /\ task[t].result.tag = "Ok"
                  /\ task[t].result.response.tier = "None"
                  /\ task[t].result.response.new_loyalty_points
                        = task[t].result.response.old_loyalty_points
                  /\ Positions(Events(task[t].member_id), task[t].event.event_id) # {}

\* An inactive member with a membership_since ahead of the clock made a
\* purchase: the event of 0 points is in the ledger.
C15_Witness ==
    \E t \in Tasks :
        /\ InactiveCall(t)
        /\ task[t].db_member.membership_since > now
        /\ task[t].input = InStorePurchase(365)
        /\ Accepted(t)
        /\ Len(Events(task[t].member_id)) = 1
        /\ Events(task[t].member_id)[1].delta_points = 0
        /\ task[t].result.response.tier = "None"

(***************************************************************************)
(* C20: on an empty store, AddPoints with Manual{loyalty_points = 5,       *)
(* reason = ""} results in points = 5 and exactly one event with           *)
(* delta_points = 5 and reason "Manual addition".                          *)
(***************************************************************************)
\* Task t's AddPoints with Manual{5, ""} returned a response, on a store
\* that was empty.
ManualEmptyReason(t) ==
    /\ task[t].op = "AddPoints"
    /\ Accepted(t)
    /\ task[t].input = Manual(5, Some(""))
    /\ task[t].loyalty.events = <<>>

C20_ManualAddition ==
    \A t \in Tasks :
        ManualEmptyReason(t) =>
            /\ Points(task[t].member_id) = 5
            /\ Len(Events(task[t].member_id)) = 1
            /\ Events(task[t].member_id)[1].delta_points = 5
            /\ Events(task[t].member_id)[1].reason = "Manual addition"

\* C20 as amended: the reason stored is the supplied, empty string.
C20_SuppliedEmptyReason ==
    \A t \in Tasks :
        ManualEmptyReason(t) =>
            /\ Points(task[t].member_id) = 5
            /\ Len(Events(task[t].member_id)) = 1
            /\ Events(task[t].member_id)[1].delta_points = 5
            /\ Events(task[t].member_id)[1].reason = ""

C20_Witness ==
    \E t \in Tasks :
        /\ ManualEmptyReason(t)
        /\ Points(task[t].member_id) = 5
        /\ Events(task[t].member_id)[1].reason = ""

(***************************************************************************)
(* The date specification: one caller, who appends 305 points for member 1 *)
(* and sends AddPoints with InStorePurchase{3.65}, member 1 being active   *)
(* since 700 days before the clock, on every clock day of NumDays days.    *)
(***************************************************************************)

DateNows == FirstDay..(FirstDay + NumDays - 1)

InitDates == InitWith(DateNows, Directories)

NextDates ==
    \/ call_register_loyalty_event(1, 1, 305)
    \/ call(1, 1, InStorePurchase(365))
    \/ get_member(1)
    \/ get_loyalty_points(1)
    \/ call_create_event(1)
    \/ register_loyalty_event(1)
    \/ register_write(1)
    \/ return(1)

SpecDates == InitDates /\ [][NextDates]_vars

(***************************************************************************)
(* C17: for an active member whose membership_since is 700 days before the *)
(* clock and whose stored total is 305, AddPoints with                     *)
(* InStorePurchase{3.65} returns, on every date, tier Gold,                *)
(* old_loyalty_points 305 and new_loyalty_points 350, and the store total  *)
(* becomes 350.                                                            *)
(***************************************************************************)
C17_GoldPurchase ==
    \A t \in Tasks :
        (/\ task[t].op = "AddPoints"
         /\ task[t].pc = "done"
         /\ task[t].input = InStorePurchase(365)
         /\ task[t].db_member = [active_member |-> TRUE, membership_since |-> now - 700]
         /\ task[t].loyalty.member_id = task[t].member_id
         /\ task[t].loyalty.points = 305)
        => /\ task[t].result.tag = "Ok"
           /\ task[t].result.response.tier = "Gold"
           /\ task[t].result.response.old_loyalty_points = 305
           /\ task[t].result.response.new_loyalty_points = 350
           /\ Points(task[t].member_id) = 350

(***************************************************************************)
(* C16: get_loyalty_points is a pure read.  It never fails with not-found; *)
(* for a member without a record it returns points 0 and no events and     *)
(* creates no record; two calls for a member with no write between them    *)
(* return equal values.                                                    *)
(***************************************************************************)
C16_PureRead ==
    [][\A t \in Tasks :
          (task[t].pc = "get_loyalty_points" /\ task'[t].pc # "get_loyalty_points")
          => LET m == task[t].member_id
                 stored == IF m \in DOMAIN loyalties
                           THEN loyalties[m]
                           ELSE [member_id |-> m, points |-> 0, events |-> <<>>]
             IN  /\ loyalties' = loyalties
                 /\ task'[t].db_result.tag \in {"Ok", "Adapter"}
                 /\ task'[t].db_result.tag = "Adapter" <=> poisoned
                 /\ task'[t].db_result.tag = "Ok" =>
                       /\ task'[t].db_result.loyalty = stored
                       /\ \A u \in Tasks :
                             (/\ task[u].op = "get_loyalty_points"
                              /\ task[u].pc = "done"
                              /\ task[u].result.tag = "Ok"
                              /\ task[u].member_id = m
                              /\ Len(task[u].result.loyalty.events) = Len(stored.events))
                             => task'[t].db_result.loyalty = task[u].result.loyalty]_vars

\* Two reads of a member without a record, with no write between them,
\* returned the same Loyalty of 0 points and no events, and left no record
\* for that member in a store that holds another member's record.
C16_Witness ==
    \E t, u \in Tasks :
        /\ t # u
        /\ task[t].op = "get_loyalty_points" /\ task[u].op = "get_loyalty_points"
        /\ task[t].pc = "done" /\ task[u].pc = "done"
        /\ task[t].result.tag = "Ok" /\ task[u].result.tag = "Ok"
        /\ task[t].member_id = task[u].member_id
        /\ task[t].member_id \notin DOMAIN loyalties
        /\ task[t].result.loyalty.points = 0
        /\ task[t].result.loyalty.events = <<>>
        /\ task[u].result = task[t].result
        /\ DOMAIN loyalties # {}

(***************************************************************************)
(* C18: a member's ledger is append-only.  Across every step the event     *)
(* list is unchanged or the previous list with exactly one event added at  *)
(* the tail; no record is removed.                                         *)
(***************************************************************************)
C18_AppendOnly ==
    [][/\ DOMAIN loyalties \subseteq DOMAIN loyalties'
       /\ \A m \in DOMAIN loyalties' :
             LET old == IF m \in DOMAIN loyalties THEN loyalties[m].events ELSE <<>>
                 new == loyalties'[m].events
             IN  \/ new = old
                 \/ /\ Len(new) = Len(old) + 1
                    /\ SubSeq(new, 1, Len(old)) = old]_vars

\* The third event has just been appended to a ledger.
C18_Witness ==
    \E t \in Tasks :
        /\ Accepted(t)
        /\ Len(task[t].db_result.loyalty.events) = 3
        /\ loyalties[task[t].member_id].events = task[t].db_result.loyalty.events

(***************************************************************************)
(* C19: every successful AddPoints call appends an event with a fresh      *)
(* event_id, so the event_ids of a ledger stay pairwise distinct; there is *)
(* no de-duplication: the event is appended and its delta applied also     *)
(* when the same request was served before.                                *)
(***************************************************************************)
C19_FreshEventId ==
    [][\A t \in Tasks :
          (task[t].op = "AddPoints" /\ task[t].pc = "register_write"
             /\ task'[t].pc = "done")
          => LET m == task[t].member_id
                 e == task[t].event
                 old == IF m \in DOMAIN loyalties THEN loyalties[m]
                        ELSE [member_id |-> m, points |-> 0, events |-> <<>>]
             IN  /\ \A k \in DOMAIN loyalties :
                       \A i \in 1..Len(loyalties[k].events) :
                           loyalties[k].events[i].event_id # e.event_id
                 /\ loyalties'[m].events = Append(old.events, e)
                 /\ loyalties'[m].points = old.points + e.delta_points
                 /\ \A i, j \in 1..Len(loyalties'[m].events) :
                       loyalties'[m].events[i].event_id
                          = loyalties'[m].events[j].event_id => i = j]_vars

\* The same request was served twice: two events that differ in their
\* event_id only, and the delta applied twice.
C19_Witness ==
    \E t, u \in Tasks :
        /\ t # u
        /\ task[t].op = "AddPoints" /\ task[u].op = "AddPoints"
        /\ Accepted(t) /\ Accepted(u)
        /\ task[t].member_id = task[u].member_id
        /\ task[t].input = task[u].input
        /\ task[t].event.event_id # task[u].event.event_id
        /\ task[t].event.delta_points = task[u].event.delta_points
        /\ task[t].event.delta_points > 0
        /\ Len(Events(task[t].member_id)) = 2
        /\ Points(task[t].member_id) = 2 * task[t].event.delta_points

(***************************************************************************)
(* The isolation specification: caller 1 serves member 1 only, with small  *)
(* appends and a purchase; caller 2 serves member 2 only, with appends of  *)
(* the largest i32 delta.                                                  *)
(***************************************************************************)

InitIsolation == InitWith(Nows, Directories)

NextIsolation ==
    \/ \E d \in Deltas : call_register_loyalty_event(1, 1, d)
    \/ call(1, 1, InStorePurchase(365))
    \/ call_register_loyalty_event(2, 2, MaxI32)
    \/ \E t \in {1, 2} :
          \/ get_member(t)
          \/ get_loyalty_points(t)
          \/ call_create_event(t)
          \/ register_loyalty_event(t)
          \/ register_write(t)
          \/ return(t)

SpecIsolation == InitIsolation /\ [][NextIsolation]_vars

\* The store with every record but member_id's left out.
OwnRecord(map, member_id) ==
    [k \in DOMAIN map \cap {member_id} |-> map[k]]

\* A step of task t leaves the record of every member but t's own as it is.
OthersUntouched(t) ==
    \A b \in Members :
        b # task[t].member_id =>
            /\ b \in DOMAIN loyalties' <=> b \in DOMAIN loyalties
            /\ b \in DOMAIN loyalties => loyalties'[b] = loyalties[b]

\* The check step of task t accepts its event exactly when the check of
\* the member's own record alone accepts it.
DecidedOnOwnTotal(t) ==
    LET own == OwnRecord(loyalties, task[t].member_id)
        chk == register_check(own, task[t].member_id, task[t].event, overflow_checks)
    IN  task'[t].pc = "register_write" <=> chk.outcome = "Write"

(***************************************************************************)
(* C21: members are isolated from each other.  A step of an append or of   *)
(* an AddPoints call for member A, accepted or rejected, leaves the points *)
(* and the event list of every other member B unchanged, and whether A's   *)
(* event is accepted depends on A's own current total only.                *)
(***************************************************************************)
C21_MemberIsolation ==
    [][\A t \in Tasks :
          /\ (task[t].pc = "idle" /\ task'[t] # task[t]) => loyalties' = loyalties
          /\ (task[t].pc # "idle" /\ task'[t] # task[t]) => OthersUntouched(t)
          /\ (task[t].pc = "register_loyalty_event" /\ task'[t] # task[t])
                => DecidedOnOwnTotal(t)]_vars

====
